---- MODULE Spec2Model ----
(***************************************************************************)
(* Model of src/profiler.py: MyLineProfiler (the invocation wrapper        *)
(* dispatcher and its four wrapping strategies) and the report renderer    *)
(* (print_stats, show_text, show_func).                                    *)
(*                                                                         *)
(* Spec        the dispatcher and the wrappers                             *)
(* SpecReport  the report renderer                                         *)
(*                                                                         *)
(* Python semantics assumed: CPython >= 3.7 (PEP 479: a StopIteration      *)
(* that leaves a generator body is replaced by RuntimeError).              *)
(***************************************************************************)
EXTENDS Integers, Sequences, FiniteSets, TLC

\* ------------------------------------------------------------------ bounds
MaxArg == 1        \* call arguments are drawn from 0..MaxArg
MaxCalls == 2      \* completed calls of one wrapper
MaxSuspend == 1    \* internal suspensions of the wrapped coroutine
MaxYields == 2     \* yields of the wrapped generator
MaxRequests == 3   \* next/send requests made on one wrapper generator
MaxBase == 1       \* tracer activation count before the wrapper is used
MaxFiles == 2      \* source files, numbered in the order of their names
MaxStart == 2      \* start lines of profiled functions
MaxTargets == 2    \* targets in the accumulated statistics
MaxHits == 1       \* hit count of one LineStat
MaxTime == 1       \* elapsed ticks of one LineStat
MaxUnit == 2       \* timer units, in multiples of the smallest one
BlockLines == 2    \* source lines of one function's block

VARIABLES
    \* ---- dispatcher and wrappers
    func,          \* the object handed to __call__
    registered,    \* objects the tracer was asked to register (add_function)
    wrapper,       \* the wrapping strategy __call__ returned, "none" before
    wrapErr,       \* whether __call__ raised
    enable_count,  \* the tracer's activation count (with self:)
    base,          \* enable_count when the wrapper was produced
    pc,            \* position inside the wrapper's code
    callCls,       \* class reference the current call was made through
    callArgs,      \* arguments of the current call
    received,      \* what the underlying function was called with
    outcome,       \* outcome of the bracketed code, not yet with the caller
    result,        \* what the wrapper's caller last got
    calls,         \* completed calls of the wrapper
    nsusp,         \* suspensions of the awaited coroutine in this call
    g,             \* the inner generator
    input_,        \* wrap_generator's local input_
    item,          \* wrap_generator's local item
    sent,          \* values the consumer supplied to the wrapper generator
    yielded,       \* values the wrapper generator yielded
    brackets,      \* brackets opened by the wrapper generator
    resumptions,   \* resumptions of the inner generator
    requests,      \* requests made on the live wrapper generator
    \* ---- report renderer
    stats,         \* accumulated statistics: set of [key, timings]
    existing,      \* source files that exist at report time
    unit,          \* the tracer's timer unit
    output_unit,   \* [given, val]: given is FALSE for None
    stripzeros,
    out,           \* lines written to the stream
    raised,        \* exception that left the report call, "none" if none
    rpc,           \* position inside the report code
    todo,          \* show_text: sorted keys still to visit
    visited,       \* show_text: keys whose block was processed
    target         \* the target of the current show_func call

wvars == <<func, registered, wrapper, wrapErr, enable_count, base, pc, callCls,
           callArgs, received, outcome, result, calls, nsusp, g, input_, item,
           sent, yielded, brackets, resumptions, requests>>
rvars == <<stats, existing, unit, output_unit, stripzeros, out, raised, rpc, todo,
           visited, target>>
vars == <<wvars, rvars>>

\* ------------------------------------------------------------ the objects
Args == 0 .. MaxArg
Classes == {"Base", "Sub"}      \* Sub is a subclass of Base
SendVals == {"None", "a", "b"}  \* next(w) is w.send(None)

Funcs ==
    [kind : {"plain", "classmethod", "noncallable"}, raises : BOOLEAN,
     suspends : {0}, len : {0}]
    \cup [kind : {"coroutine"}, raises : BOOLEAN,
          suspends : 0 .. MaxSuspend, len : {0}]
    \cup [kind : {"generator"}, raises : BOOLEAN,
          suspends : {0}, len : 0 .. MaxYields]

is_classmethod(f) == f.kind = "classmethod"
is_coroutine(f) == f.kind = "coroutine"
is_generator(f) == f.kind = "generator"

NoOutcome == [tag |-> "none", val |-> 0, exc |-> "none"]
Return(v) == [tag |-> "return", val |-> v, exc |-> "none"]
Raise(e) == [tag |-> "raise", val |-> 0, exc |-> e]
Yield == [tag |-> "yield", val |-> 0, exc |-> "none"]

NoReceived == [first |-> "none", args |-> 0]
NoItem == [arg |-> 0, i |-> 0, recv |-> "None"]
NoGen == [i |-> 0, done |-> FALSE]

\* The body of the wrapped callable: returns its argument, or raises.
Body(f, a) ==
    IF f.kind = "noncallable" THEN Raise("TypeError")
    ELSE IF f.raises THEN Raise("Error")
    ELSE Return(a)

\* One resumption of the wrapped generator in state s with the value v sent
\* to it: the outcome, the item yielded and the generator's next state.
\* The generator yields f.len times, each time a value naming the call
\* argument, the index of the yield and the value it was resumed with, and
\* then returns (StopIteration) or raises.
InnerResume(f, a, s, v) ==
    IF s.done
    THEN [out |-> Raise("StopIteration"), item |-> NoItem, next |-> s]
    ELSE IF s.i < f.len
    THEN [out |-> Yield, item |-> [arg |-> a, i |-> s.i, recv |-> v],
          next |-> [s EXCEPT !.i = s.i + 1]]
    ELSE [out |-> Raise(IF f.raises THEN "Error" ELSE "StopIteration"),
          item |-> NoItem, next |-> [s EXCEPT !.done = TRUE]]

\* --------------------------------------------------------- the tracer scope
\* with self: LineProfiler.__enter__ is enable_by_count, __exit__ is
\* disable_by_count, run on every exit path of the block.
WithEnter(c) == c + 1
WithExit(c) == IF c > 0 THEN c - 1 ELSE c

\* ------------------------------------------------------------- dispatcher
Classify(f) ==
    IF is_classmethod(f) THEN "wrap_classmethod"
    ELSE IF is_coroutine(f) THEN "wrap_coroutine"
    ELSE IF is_generator(f) THEN "wrap_generator"
    ELSE "wrap_function"

NoneUnit == [given |-> FALSE, val |-> 0]

ReportIdle ==
    /\ stats = {} /\ existing = {} /\ unit = 1 /\ output_unit = NoneUnit
    /\ stripzeros = FALSE
    /\ out = <<>> /\ raised = "none" /\ rpc = "off" /\ todo = <<>>
    /\ visited = <<>> /\ target = <<>>

Init ==
    /\ func \in Funcs
    /\ registered = {}
    /\ wrapper = "none"
    /\ wrapErr = FALSE
    /\ enable_count \in 0 .. MaxBase
    /\ base = enable_count
    /\ pc = "unwrapped"
    /\ callCls = "none"
    /\ callArgs = 0
    /\ received = NoReceived
    /\ outcome = NoOutcome
    /\ result = NoOutcome
    /\ calls = 0
    /\ nsusp = 0
    /\ g = NoGen
    /\ input_ = "None"
    /\ item = NoItem
    /\ sent = <<>>
    /\ yielded = <<>>
    /\ brackets = 0
    /\ resumptions = 0
    /\ requests = 0
    /\ ReportIdle

genvars == <<g, input_, item, sent, yielded, brackets, resumptions, requests>>

\* MyLineProfiler.__call__
Call ==
    /\ pc = "unwrapped"
    /\ registered' = registered \cup {func}
    /\ wrapper' = Classify(func)
    /\ wrapErr' = FALSE
    /\ pc' = "idle"
    /\ UNCHANGED <<func, enable_count, base, callCls, callArgs, received,
                   outcome, result, calls, nsusp, genvars, rvars>>

callvars == <<func, registered, wrapper, wrapErr, base>>

\* What the caller of a plain, classmethod or coroutine wrapper does: a call
\* with argument a, made through the class reference c ("none": no class).
Invoke(w, c, a) ==
    /\ wrapper = w
    /\ pc = "idle"
    /\ calls < MaxCalls
    /\ callCls' = c
    /\ callArgs' = a
    /\ received' = NoReceived
    /\ outcome' = NoOutcome
    /\ nsusp' = 0
    /\ pc' = "enter"
    /\ UNCHANGED <<callvars, enable_count, result, calls, genvars, rvars>>

\* Entry of the with self: block.
Enter(w) ==
    /\ wrapper = w
    /\ pc = "enter"
    /\ enable_count' = WithEnter(enable_count)
    /\ pc' = "body"
    /\ UNCHANGED <<callvars, callCls, callArgs, received, outcome, result,
                   calls, nsusp, genvars, rvars>>

\* The bracketed call of the underlying function with first as the implicit
\* first argument ("none": there is none).
RunBody(w, first) ==
    /\ wrapper = w
    /\ pc = "body"
    /\ nsusp = func.suspends
    /\ received' = [first |-> first, args |-> callArgs]
    /\ outcome' = Body(func, callArgs)
    /\ pc' = "exit"
    /\ UNCHANGED <<callvars, enable_count, callCls, callArgs, result, calls,
                   nsusp, genvars, rvars>>

\* Exit of the with self: block, on return and on exception alike.
Exit(w) ==
    /\ wrapper = w
    /\ pc = "exit"
    /\ enable_count' = WithExit(enable_count)
    /\ pc' = "deliver"
    /\ UNCHANGED <<callvars, callCls, callArgs, received, outcome, result,
                   calls, nsusp, genvars, rvars>>

\* return result, or the exception leaving the wrapper.
Deliver(w) ==
    /\ wrapper = w
    /\ pc = "deliver"
    /\ result' = outcome
    /\ calls' = calls + 1
    /\ pc' = "idle"
    /\ UNCHANGED <<callvars, enable_count, callCls, callArgs, received,
                   outcome, nsusp, genvars, rvars>>

\* ---- wrap_function
FnInvoke == \E a \in Args : Invoke("wrap_function", "none", a)
FnEnter == Enter("wrap_function")
FnBody == RunBody("wrap_function", "none")
\* Mutant of FnExit: enable, call, disable with no cleanup on the exception
\* path.
FnExit_NoFinally ==
    /\ wrapper = "wrap_function"
    /\ pc = "exit"
    /\ enable_count' = IF outcome.tag = "raise" THEN enable_count
                       ELSE WithExit(enable_count)
    /\ pc' = "deliver"
    /\ UNCHANGED <<callvars, callCls, callArgs, received, outcome, result,
                   calls, nsusp, genvars, rvars>>
FnExit == Exit("wrap_function")
FnReturn == Deliver("wrap_function")

\* ---- wrap_classmethod
\* func.__class__: the type of the object func.
TypeOf(f) ==
    IF is_classmethod(f) THEN "classmethod"
    ELSE IF f.kind = "noncallable" THEN "object"
    ELSE "function"

\* The wrapper is a plain function: reached through a class reference c it
\* gets the caller's arguments only.
CmInvoke == \E c \in Classes, a \in Args : Invoke("wrap_classmethod", c, a)
CmEnter == Enter("wrap_classmethod")
\* func.__func__(func.__class__, *args, **kwds)
CmBody == RunBody("wrap_classmethod", TypeOf(func))
CmExit == Exit("wrap_classmethod")
CmReturn == Deliver("wrap_classmethod")

\* ---- wrap_coroutine
CoInvoke == \E a \in Args : Invoke("wrap_coroutine", "none", a)
CoEnter == Enter("wrap_coroutine")
\* The awaited coroutine suspends: control is with the event loop, the
\* bracket stays open.
CoSuspend ==
    /\ wrapper = "wrap_coroutine"
    /\ pc = "body"
    /\ nsusp < func.suspends
    /\ nsusp' = nsusp + 1
    /\ pc' = "awaiting"
    /\ UNCHANGED <<callvars, enable_count, callCls, callArgs, received,
                   outcome, result, calls, genvars, rvars>>
CoResume ==
    /\ wrapper = "wrap_coroutine"
    /\ pc = "awaiting"
    /\ pc' = "body"
    /\ UNCHANGED <<callvars, enable_count, callCls, callArgs, received,
                   outcome, result, calls, nsusp, genvars, rvars>>
CoFinish == RunBody("wrap_coroutine", "none")
CoExit == Exit("wrap_coroutine")
CoReturn == Deliver("wrap_coroutine")

\* ---- wrap_generator
\* Calling the wrapper makes a generator object; none of its body runs.
GenCall ==
    /\ wrapper = "wrap_generator"
    /\ pc \in {"idle", "suspended", "finished", "exhausted"}
    /\ calls < MaxCalls
    /\ \E a \in Args : callArgs' = a
    /\ calls' = calls + 1
    /\ pc' = "created"
    /\ g' = NoGen /\ input_' = "None" /\ item' = NoItem
    /\ sent' = <<>> /\ yielded' = <<>>
    /\ brackets' = 0 /\ resumptions' = 0 /\ requests' = 0
    /\ received' = NoReceived /\ outcome' = NoOutcome /\ result' = NoOutcome
    /\ UNCHANGED <<callvars, enable_count, callCls, nsusp, rvars>>

\* send(v), v not None, on a generator that has not started: TypeError, and
\* the generator is left as it was.
GenSendFresh ==
    /\ wrapper = "wrap_generator"
    /\ pc = "created"
    /\ result' = Raise("TypeError")
    /\ UNCHANGED <<callvars, enable_count, pc, callCls, callArgs, received,
                   outcome, calls, nsusp, genvars, rvars>>

\* The first next(w): g = func(*args, **kwds)
GenFirst ==
    /\ wrapper = "wrap_generator"
    /\ pc = "created"
    /\ requests < MaxRequests
    /\ received' = [first |-> "none", args |-> callArgs]
    /\ g' = NoGen
    /\ sent' = Append(sent, "None")
    /\ requests' = requests + 1
    /\ pc' = "enter1"
    /\ UNCHANGED <<callvars, enable_count, callCls, callArgs, outcome, result,
                   calls, nsusp, input_, item, yielded, brackets, resumptions,
                   rvars>>

\* w.send(v) at a yield: input_ = (yield item)
GenSend ==
    /\ wrapper = "wrap_generator"
    /\ pc = "suspended"
    /\ requests < MaxRequests
    /\ \E v \in SendVals :
        /\ input_' = v
        /\ sent' = Append(sent, v)
    /\ requests' = requests + 1
    /\ pc' = "enter2"
    /\ UNCHANGED <<callvars, enable_count, callCls, callArgs, received,
                   outcome, result, calls, nsusp, g, item, yielded, brackets,
                   resumptions, rvars>>

\* Entry of one of the two with self: blocks.
GenEnter ==
    /\ wrapper = "wrap_generator"
    /\ pc \in {"enter1", "enter2"}
    /\ enable_count' = WithEnter(enable_count)
    /\ brackets' = brackets + 1
    /\ pc' = IF pc = "enter1" THEN "next" ELSE "send"
    /\ UNCHANGED <<callvars, callCls, callArgs, received, outcome, result,
                   calls, nsusp, g, input_, item, sent, yielded, resumptions,
                   requests, rvars>>

Resumed(r) ==
    /\ outcome' = r.out
    /\ item' = IF r.out.tag = "yield" THEN r.item ELSE item
    /\ g' = r.next
    /\ resumptions' = resumptions + 1
    /\ pc' = "exit"
    /\ UNCHANGED <<callvars, enable_count, callCls, callArgs, received,
                   result, calls, nsusp, input_, sent, yielded, brackets,
                   requests, rvars>>

\* item = next(g)
GenNext ==
    /\ wrapper = "wrap_generator"
    /\ pc = "next"
    /\ Resumed(InnerResume(func, callArgs, g, "None"))

\* Mutant of GenSendInner: the inner generator is advanced with next(g), the
\* consumer's value dropped.
GenSendInner_Next ==
    /\ wrapper = "wrap_generator"
    /\ pc = "send"
    /\ Resumed(InnerResume(func, callArgs, g, "None"))

\* item = g.send(input_)
GenSendInner ==
    /\ wrapper = "wrap_generator"
    /\ pc = "send"
    /\ Resumed(InnerResume(func, callArgs, g, input_))

\* Mutant of GenExit: one bracket around the generator's whole life, closed
\* only when the inner generator raises.
GenExit_KeepOpen ==
    /\ wrapper = "wrap_generator"
    /\ pc = "exit"
    /\ enable_count' = IF outcome.tag = "yield" THEN enable_count
                       ELSE WithExit(enable_count)
    /\ pc' = "deliver"
    /\ UNCHANGED <<callvars, callCls, callArgs, received, outcome, result,
                   calls, nsusp, genvars, rvars>>

\* Exit of the with self: block, before the yield or the exception.
GenExit ==
    /\ wrapper = "wrap_generator"
    /\ pc = "exit"
    /\ enable_count' = WithExit(enable_count)
    /\ pc' = "deliver"
    /\ UNCHANGED <<callvars, callCls, callArgs, received, outcome, result,
                   calls, nsusp, genvars, rvars>>

\* An exception leaving the body of a generator: a StopIteration is replaced
\* by RuntimeError("generator raised StopIteration") (PEP 479).
GenFrameExit(e) == IF e = "StopIteration" THEN "RuntimeError" ELSE e

\* yield item: the wrapper is suspended with the consumer holding item.
GenYield ==
    /\ wrapper = "wrap_generator"
    /\ pc = "deliver"
    /\ outcome.tag = "yield"
    /\ yielded' = Append(yielded, item)
    /\ result' = Yield
    /\ pc' = "suspended"
    /\ UNCHANGED <<callvars, enable_count, callCls, callArgs, received,
                   outcome, calls, nsusp, g, input_, item, sent, brackets,
                   resumptions, requests, rvars>>

\* The exception of next(g) or g.send(input_) leaves the wrapper's body.
GenRaise ==
    /\ wrapper = "wrap_generator"
    /\ pc = "deliver"
    /\ outcome.tag = "raise"
    /\ result' = Raise(GenFrameExit(outcome.exc))
    /\ pc' = "finished"
    /\ UNCHANGED <<callvars, enable_count, callCls, callArgs, received,
                   outcome, calls, nsusp, genvars, rvars>>

\* A request on a wrapper generator that has finished: StopIteration at once.
GenRequestFinished ==
    /\ wrapper = "wrap_generator"
    /\ pc = "finished"
    /\ result' = Raise("StopIteration")
    /\ pc' = "exhausted"
    /\ UNCHANGED <<callvars, enable_count, callCls, callArgs, received,
                   outcome, calls, nsusp, genvars, rvars>>

Next ==
    \/ Call
    \/ FnInvoke \/ FnEnter \/ FnBody \/ FnExit \/ FnReturn
    \/ CmInvoke \/ CmEnter \/ CmBody \/ CmExit \/ CmReturn
    \/ CoInvoke \/ CoEnter \/ CoSuspend \/ CoResume \/ CoFinish \/ CoExit
    \/ CoReturn
    \/ GenCall \/ GenSendFresh \/ GenFirst \/ GenSend \/ GenEnter \/ GenNext
    \/ GenSendInner \/ GenExit \/ GenYield \/ GenRaise \/ GenRequestFinished

Spec == Init /\ [][Next]_vars

\* ================================================================ report
\* A target's identity key (source_file, start_line, qualified_name); files
\* are numbered in the order of their names, and one name is used.
Keys == {<<f, l, 1>> : f \in 1 .. MaxFiles, l \in 1 .. MaxStart}
LineNos == 1 .. MaxStart + 1
\* A LineStat is (lineno, nhits, time); a target has at most one here.
LineStats == {<<l, h, t>> : l \in LineNos, h \in 0 .. MaxHits, t \in 0 .. MaxTime}
TimingLists == {<<>>} \cup {<<x>> : x \in LineStats}
OutputUnits == {NoneUnit} \cup [given : {TRUE}, val : 0 .. MaxUnit]

\* Python's order on the key tuples.
KeyLess(a, b) ==
    \/ a[1] < b[1]
    \/ a[1] = b[1] /\ a[2] < b[2]
    \/ a[1] = b[1] /\ a[2] = b[2] /\ a[3] < b[3]

RECURSIVE SortedKeys(_)
\* sorted(stats.items()): the keys are distinct, so the keys decide.
SortedKeys(ks) ==
    IF ks = {} THEN <<>>
    ELSE LET m == CHOOSE k \in ks : \A o \in ks \ {k} : KeyLess(k, o)
         IN <<m>> \o SortedKeys(ks \ {m})

TimingsOf(k) == (CHOOSE t \in stats : t.key = k).timings

\* Names bound in the module's global namespace, and in the class body of
\* MyLineProfiler.
ModuleGlobals ==
    {"functools", "inspect", "linecache", "os", "sys", "LineProfiler",
     "is_coroutine", "is_generator", "is_classmethod", "MyLineProfiler",
     "show_text", "profile", "call_a", "call_b", "testfunc", "main"}
ClassNamespace ==
    {"__call__", "wrap_classmethod", "wrap_coroutine", "wrap_generator",
     "wrap_function", "print_stats", "add_module", "show_func"}

\* ---- lines and cells
Blank == [blank |-> TRUE, num |-> 0, den |-> 1]
Cell(n, d) == [blank |-> FALSE, num |-> n, den |-> d]
EmptyCells == <<Blank, Blank, Blank, Blank>>
Line(kind, k, lineno, cells) ==
    [kind |-> kind, key |-> k, lineno |-> lineno, cells |-> cells]

RECURSIVE TotalTime(_)
\* sum(time for _, _, time in timings)
TotalTime(timings) ==
    IF timings = <<>> THEN 0
    ELSE Head(timings)[3] + TotalTime(Tail(timings))

\* if not output_unit: output_unit = unit
EffectiveUnit(u, ou) == IF ~ou.given \/ ou.val = 0 THEN u ELSE ou.val

\* A format specification applied to a str: a sign is not allowed
\* (ValueError: Sign not allowed in string format specifier).
StrSpec(sign, width) == [sign |-> sign, width |-> width]
FormatRaises(specs) == \E i \in 1 .. Len(specs) : specs[i].sign
\* the str-valued replacement fields of the table header
HeaderSpecs ==
    <<StrSpec(FALSE, 6), StrSpec(FALSE, 9), StrSpec(FALSE, 12),
      StrSpec(FALSE, 8), StrSpec(FALSE, 8), StrSpec(TRUE, 0)>>
\* the str-valued replacement field of a table row: line.rstrip()
RowSpecs == <<StrSpec(TRUE, 0)>>

\* float(time) * scalar / nhits raises ZeroDivisionError for nhits = 0
DictRaises(timings) == \E i \in 1 .. Len(timings) : timings[i][2] = 0

\* d[lineno] = (nhits, time, per hit, percent); a later entry of the same
\* line replaces an earlier one.
DictOf(timings, u, eff) ==
    LET total == TotalTime(timings)
        last(l) == CHOOSE i \in 1 .. Len(timings) :
                      /\ timings[i][1] = l
                      /\ \A j \in i + 1 .. Len(timings) : timings[j][1] # l
        entry(x) == <<Cell(x[2], 1),
                      Cell(x[3] * u, eff),
                      Cell(x[3] * u, eff * x[2]),
                      IF total = 0 THEN Blank ELSE Cell(100 * x[3], total)>>
    IN [l \in {timings[i][1] : i \in 1 .. Len(timings)} |->
           entry(timings[last(l)])]

\* show_func: the lines written and the exception that leaves it, if any.
ShowFunc(k, timings, u, ou, sz, exists) ==
    LET total == TotalTime(timings)
        eff == EffectiveUnit(u, ou)
        head == <<Line("total", k, 0, <<Cell(total * u, eff)>>),
                  Line("file", k, 0, <<>>),
                  Line("function", k, k[2], <<>>)>>
        d == DictOf(timings, u, eff)
        linenos == [i \in 1 .. BlockLines |-> k[2] + i - 1]
        rows == [i \in 1 .. BlockLines |->
                    Line("row", k, linenos[i],
                         IF linenos[i] \in DOMAIN d THEN d[linenos[i]]
                         ELSE EmptyCells)]
        table == <<Line("header", k, 0, <<>>), Line("rule", k, 0, <<>>)>>
    IN
    IF ~exists
    THEN [lines |-> <<Line("diag", k, 0, <<>>)>>, raised |-> "none"]
    ELSE IF sz /\ total = 0
    THEN [lines |-> <<>>, raised |-> "none"]
    ELSE IF DictRaises(timings)
    THEN [lines |-> head, raised |-> "ZeroDivisionError"]
    ELSE IF FormatRaises(HeaderSpecs)
    THEN [lines |-> head, raised |-> "ValueError"]
    ELSE IF BlockLines > 0 /\ FormatRaises(RowSpecs)
    THEN [lines |-> head \o table, raised |-> "ValueError"]
    ELSE [lines |-> head \o table \o rows \o <<Line("blank", k, 0, <<>>)>>,
          raised |-> "none"]

\* Accumulated statistics with at most n targets, one entry per key.
StatsUpTo(n) ==
    UNION {{{[key |-> k, timings |-> f[k]] : k \in ks} : f \in [ks -> TimingLists]} :
              ks \in {x \in SUBSET Keys : Cardinality(x) <= n}}

InitReport ==
    /\ func = [kind |-> "plain", raises |-> FALSE, suspends |-> 0, len |-> 0]
    /\ registered = {}
    /\ wrapper = "none"
    /\ wrapErr = FALSE
    /\ enable_count = 0
    /\ base = 0
    /\ pc = "off"
    /\ callCls = "none"
    /\ callArgs = 0
    /\ received = NoReceived
    /\ outcome = NoOutcome
    /\ result = NoOutcome
    /\ calls = 0
    /\ nsusp = 0
    /\ g = NoGen
    /\ input_ = "None"
    /\ item = NoItem
    /\ sent = <<>>
    /\ yielded = <<>>
    /\ brackets = 0
    /\ resumptions = 0
    /\ requests = 0
    /\ stats \in StatsUpTo(MaxTargets)
    /\ existing \in SUBSET (1 .. MaxFiles)
    /\ unit \in 1 .. MaxUnit
    /\ output_unit \in OutputUnits
    /\ stripzeros \in BOOLEAN
    /\ out = <<>>
    /\ raised = "none"
    /\ rpc = "ready"
    /\ todo = <<>>
    /\ visited = <<>>
    /\ target = <<>>

inputs == <<stats, existing, unit, output_unit, stripzeros>>

\* A call of show_func for one target of the statistics.
ShowFuncCall ==
    /\ rpc = "ready"
    /\ \E t \in stats :
        LET r == ShowFunc(t.key, t.timings, unit, output_unit, stripzeros,
                          t.key[1] \in existing)
        IN /\ target' = <<t>>
           /\ out' = r.lines
           /\ raised' = r.raised
    /\ rpc' = "func_done"
    /\ UNCHANGED <<wvars, inputs, todo, visited>>

\* print_stats, and show_text up to its loop: the Timer unit line.
PrintStats ==
    /\ rpc = "ready"
    /\ out' = <<Line("timer_unit", <<0, 0, 0>>, 0,
                     <<Cell(IF output_unit.given THEN output_unit.val
                            ELSE unit, 1)>>)>>
    /\ todo' = SortedKeys({t.key : t \in stats})
    /\ rpc' = "loop"
    /\ UNCHANGED <<wvars, inputs, raised, visited, target>>

\* One iteration of show_text's loop: the name show_func is looked up in the
\* module's globals and called.
ShowTextIter ==
    /\ rpc = "loop"
    /\ todo # <<>>
    /\ IF "show_func" \in ModuleGlobals
       THEN LET k == Head(todo)
                r == ShowFunc(k, TimingsOf(k), unit, output_unit, stripzeros,
                              k[1] \in existing)
            IN /\ out' = out \o r.lines
               /\ visited' = Append(visited, [key |-> k, lines |-> r.lines,
                                              raised |-> r.raised])
               /\ raised' = r.raised
               /\ rpc' = IF r.raised = "none" THEN "loop" ELSE "raised"
               /\ todo' = Tail(todo)
       ELSE /\ raised' = "NameError"
            /\ rpc' = "raised"
            /\ UNCHANGED <<out, visited, todo>>
    /\ UNCHANGED <<wvars, inputs, target>>

\* The loop is over: show_text and print_stats return.
ShowTextReturn ==
    /\ rpc = "loop"
    /\ todo = <<>>
    /\ rpc' = "returned"
    /\ UNCHANGED <<wvars, inputs, out, raised, todo, visited, target>>

NextReport == ShowFuncCall \/ PrintStats \/ ShowTextIter \/ ShowTextReturn

SpecReport == InitReport /\ [][NextReport]_vars

\* ================================================================ claims
\* ---- under Spec

\* C1: a classmethod wrapper invoked through a class reference C calls the
\* underlying function with C as the implicit first argument, followed by
\* the caller's arguments unchanged.
C1_ClassmethodGetsCallerClass ==
    (wrapper = "wrap_classmethod" /\ pc = "exit")
        => (received.first = callCls /\ received.args = callArgs)

\* C2: whatever the inner generator raises on a resumption, its normal
\* exhaustion included, reaches the wrapper's caller as the same exception.
C2_InnerExceptionUnchanged ==
    (wrapper = "wrap_generator" /\ pc = "finished")
        => (result.tag = "raise" /\ result.exc = outcome.exc)

\* The positions of the wrappers' code that lie inside a with self: block.
InBracket == {"body", "awaiting", "exit", "next", "send"}

\* C5: for every wrapper shape the tracer's activation count is one above
\* its value before the wrapper was used exactly while the wrapper's code is
\* inside its bracket, and back at that value everywhere else: after every
\* completed call or resumption, and already when a result or an exception
\* is about to reach the caller.
C5_BracketsBalanced ==
    wrapper # "none" =>
        /\ pc \in InBracket => enable_count = base + 1
        /\ pc \notin InBracket => enable_count = base

C5_Witness ==
    /\ wrapper = "wrap_function"
    /\ pc = "deliver"
    /\ outcome.tag = "raise"
    /\ enable_count = base
    /\ calls = 1

\* C6: each request made on the live wrapper generator opens exactly one
\* bracket holding exactly one resumption of the inner generator, closed
\* before the wrapper yields: whenever the wrapper is not running, brackets,
\* resumptions and requests are equal and the wrapper's bracket is closed.
C6_OneBracketPerResumption ==
    wrapper = "wrap_generator" =>
        /\ pc \in {"idle", "created", "suspended", "finished", "exhausted",
                   "deliver"}
              => /\ brackets = requests
                 /\ resumptions = requests
                 /\ enable_count = base
        /\ pc \in {"enter1", "enter2"}
              => /\ brackets = requests - 1
                 /\ resumptions = requests - 1
                 /\ enable_count = base
        /\ pc \in {"next", "send"}
              => /\ brackets = requests
                 /\ resumptions = requests - 1
                 /\ enable_count = base + 1
        /\ pc = "exit"
              => /\ brackets = requests
                 /\ resumptions = requests
                 /\ enable_count = base + 1

C6_Witness ==
    /\ wrapper = "wrap_generator"
    /\ pc = "suspended"
    /\ requests = 2
    /\ brackets = 2
    /\ resumptions = 2
    /\ enable_count = base

RECURSIVE UnwrappedRun(_, _, _, _)
\* The values the unwrapped generator yields when driven with the requests
\* vs: a next first, then the sends.
UnwrappedRun(f, a, s, vs) ==
    IF vs = <<>> THEN <<>>
    ELSE LET r == InnerResume(f, a, s, Head(vs))
         IN IF r.out.tag = "yield"
            THEN <<r.item>> \o UnwrappedRun(f, a, r.next, Tail(vs))
            ELSE <<>>

\* C7: the values the wrapper generator has yielded are, element for
\* element, the values the unwrapped generator yields for the same argument
\* and the same resumption values (while a request is being served, for the
\* requests before it).
C7_SameValuesAsUnwrapped ==
    (wrapper = "wrap_generator" /\ pc # "idle") =>
        LET answered ==
                IF pc \in {"created", "suspended", "finished", "exhausted"}
                THEN sent ELSE SubSeq(sent, 1, Len(sent) - 1)
        IN yielded = UnwrappedRun(func, callArgs, NoGen, answered)

C7_Witness ==
    /\ wrapper = "wrap_generator"
    /\ pc = "suspended"
    /\ Len(yielded) = 2
    /\ sent[2] = "a"
    /\ yielded[2].recv = "a"

\* C8: given an object that is not classified as classmethod, coroutine or
\* generator and is not callable, __call__ reports an error at wrap time and
\* returns no wrapper.
C8_NonCallableRejected ==
    (func.kind = "noncallable" /\ pc # "unwrapped")
        => (wrapErr /\ wrapper = "none")

\* ---- under SpecReport

FileExists(k) == k[1] \in existing

\* A block written to completion: the three header lines, the table header
\* and rule, one row per source line and the closing blank line, no exception.
BlockComplete(lines, exc) ==
    /\ exc = "none"
    /\ Len(lines) = 3 + 2 + BlockLines + 1
    /\ lines[1].kind = "total"
    /\ lines[Len(lines)].kind = "blank"

\* C3: show_func never raises for LineStats with hit_count >= 0 and
\* elapsed_ticks >= 0; a line with hit_count 0 gets a blank Per Hit cell, a
\* target with total 0 blank % Time cells, and the block is written to
\* completion.
C3_RenderNeverRaises ==
    (rpc = "func_done" /\ FileExists(target[1].key)
        /\ ~(stripzeros /\ TotalTime(target[1].timings) = 0))
        => /\ BlockComplete(out, raised)
           /\ \A i \in 1 .. Len(out) : \A j \in 1 .. Len(target[1].timings) :
                 (out[i].kind = "row"
                     /\ out[i].lineno = target[1].timings[j][1])
                 => /\ target[1].timings[j][2] = 0 => out[i].cells[3].blank
                    /\ TotalTime(target[1].timings) = 0
                          => out[i].cells[4].blank

\* C4: a report request on k >= 0 targets writes one Timer unit line first,
\* processes one block per target in ascending order of the identity keys,
\* and returns without raising.
C4_ReportVisitsAllTargets ==
    rpc \in {"returned", "raised"} =>
        /\ raised = "none"
        /\ out[1].kind = "timer_unit"
        /\ \A i \in 2 .. Len(out) : out[i].kind # "timer_unit"
        /\ [i \in 1 .. Len(visited) |-> visited[i].key]
              = SortedKeys({t.key : t \in stats})

\* C9: a target whose source file does not exist gets exactly one diagnostic
\* line and nothing else, without an exception, whatever its LineStats and
\* stripzeros are; the report then continues, and every other target gets
\* its full block.
C9_MissingFileIsLocal ==
    /\ (rpc = "func_done" /\ ~FileExists(target[1].key))
          => /\ raised = "none"
             /\ Len(out) = 1
             /\ out[1].kind = "diag"
    /\ (rpc \in {"returned", "raised"}
           /\ \E t \in stats : ~FileExists(t.key))
          => /\ raised = "none"
             /\ Len(visited) = Cardinality(stats)
             /\ \A i \in 1 .. Len(visited) :
                   IF FileExists(visited[i].key)
                   THEN BlockComplete(visited[i].lines, visited[i].raised)
                   ELSE /\ Len(visited[i].lines) = 1
                        /\ visited[i].lines[1].kind = "diag"

\* C10: for a target whose file exists, with stripzeros set the block is
\* omitted entirely exactly when the target's total elapsed time is zero;
\* every block that is not omitted is written, and with stripzeros unset no
\* block is omitted.
C10_StripzerosOmitsExactlyZeroTotals ==
    (rpc = "func_done" /\ FileExists(target[1].key)) =>
        LET omitted == out = <<>>
            total == TotalTime(target[1].timings)
        IN /\ stripzeros => (omitted <=> total = 0)
           /\ ~stripzeros => ~omitted
           /\ ~omitted => BlockComplete(out, raised)
====
